---------------------------- MODULE Spec2Model ----------------------------
(***************************************************************************)
(* The asynchronous job lifecycle of the three closed-source video scripts *)
(*   scripts/closed_source/minMax_hailuo.py  (submit, poll, fetch)         *)
(*   scripts/closed_source/piapi_kling.py    (submit, poll, final, fetch)  *)
(*   scripts/closed_source/runway_gen2.py    (one synchronous request)     *)
(* One behaviour is one run of one script's main().  The provider, the     *)
(* network and the file system are the environment: every response a       *)
(* request can get is an input chosen with \E.                             *)
(* A response is either an exception raised by the request (or by parsing  *)
(* its body), or an HTTP status code with a JSON object of the provider's  *)
(* shape in which any field the script reads with .get may be missing.     *)
(***************************************************************************)
EXTENDS Integers, Sequences, FiniteSets, TLC

VARIABLES
    script,           \* which script's main() this run executes
    pc,               \* position in main()
    outcome,          \* which exit of main() was taken ("none" while running)
    clock,            \* time.time(), in seconds since main() started
    generation_start, \* minMax_hailuo.py:205
    submit_code,      \* status_code of the submit response (0: no response)
    task_id,          \* task id taken from the submit response
    poll_count,       \* minMax_hailuo.py:206,209
    raw_status,       \* last 'status' field read from a status response body
    status,           \* minMax_hailuo.py:212, second value returned by the query
    file_id,          \* minMax_hailuo.py:212, first value returned by the query
    task_status,      \* piapi_kling.py:203
    video_url,        \* piapi_kling.py:253
    final_status,     \* 'status' field of the response to piapi_kling.py:244
    download_code,    \* piapi_kling.py:266, status_code of the download response
    response_video,   \* runway_gen2.py:88, "video" in response_data
    file,             \* content of output_path: "absent", "partial", "complete"
    submits,          \* number of submit requests sent
    queries,          \* number of status requests sent
    failed_queries,   \* status requests in a row, up to now, that failed
    sleeps,           \* number of time.sleep calls
    slept_since,      \* TRUE when a sleep has been made since the last status request
    fetches,          \* number of download requests sent
    writes            \* number of times output_path was opened for writing

vars == <<script, pc, outcome, clock, generation_start, submit_code, task_id,
          poll_count,
          raw_status, status, file_id, task_status, video_url, file,
          submits, queries, failed_queries, sleeps, slept_since, fetches, writes,
          final_status, download_code, response_video>>

(***************************************************************************)
(* Bounds of the model.                                                    *)
(***************************************************************************)
\* polling status requests one run may send before the model stops it
MaxPolls == 6
\* retries the specification allows for a failing status request
RetryBudget == 1
\* seconds a network round trip may take
MaxLatency == 1

(***************************************************************************)
(* Program constants.                                                      *)
(***************************************************************************)
\* --poll_interval default of the MiniMax script
poll_interval == 10
\* the literal of time.sleep(5) in the PiAPI script
PI_SLEEP == 5
\* the maximum wait of the specification's scenario: 30 s at a 10 s interval
MaxWait == 3 * poll_interval

Scripts == {"minimax", "piapi", "runway"}
Latency == 0..MaxLatency

\* Python's None, and the truth value of an optional string
None == "None"
\* a reading of "not task_id" that rejects only a missing value
Truthy_NotNone(x) == x # None
Truthy(x) == x \notin {None, ""}

\* HTTP status codes a response may carry
HttpCodes == {200, 401, 500}
\* a variant that lets every response but a server error through
HttpOk_Not5xx(code) == code # 500
\* the test every script makes of a response: status_code != 200 is an error
HttpOk(code) == code = 200

(***************************************************************************)
(* MiniMax: the raw status vocabulary and the classification main() makes  *)
(***************************************************************************)
MM_RawStatuses ==
    {"Preparing", "Queueing", "Processing", "Success", "Fail", "Unknown", "Bogus", ""}
MM_FileIds == {"", "file-1"}

\* a variant that hands back the body's file_id whatever the status is
MM_QueryResult_KeepsFileId(code, raw, fid) ==
    IF ~HttpOk(code) THEN <<None, "Error">> ELSE <<fid, raw>>

\* query_video_generation: what it returns for a response
\* code: HTTP status code; raw: the body's status field; fid: the body's file_id
MM_QueryResult(code, raw, fid) ==
    IF ~HttpOk(code) THEN <<None, "Error">>
    ELSE IF raw = "Success" THEN <<fid, "Success">>
    ELSE <<None, raw>>

\* a variant of the success test that does not look at the file_id
MM_IsSuccess_NoFileId(st, fid) == st = "Success"
\* main, line 217
MM_IsSuccess(st, fid) == st = "Success" /\ Truthy(fid)
\* variants of the failure test: one that forgets "Unknown", one that fails on
\* every status the script does not list
MM_IsFailure_NoUnknown(st) == st \in {"Fail", "Error"}
MM_IsFailure_AnyUnlisted(st) ==
    st \notin {"Preparing", "Queueing", "Processing", "Success"}
\* main, line 232
MM_IsFailure(st) == st \in {"Fail", "Error", "Unknown"}

(***************************************************************************)
(* PiAPI: the raw status vocabulary, str.lower() on it, and the            *)
(* classification main() makes of the lowered status.                      *)
(***************************************************************************)
PI_RawStatuses ==
    {"pending", "processing", "Processing", "completed", "Completed", "COMPLETED",
     "failed", "Failed", "staged", ""}

\* a variant that leaves the status as the provider wrote it
Lower_Identity(s) == s

\* str.lower() on the raw vocabulary
Lower(s) ==
    CASE s = "Processing" -> "processing"
      [] s = "Completed"  -> "completed"
      [] s = "COMPLETED"  -> "completed"
      [] s = "Failed"     -> "failed"
      [] OTHER            -> s

\* a variant that takes every finished task, failed ones included, as completed
PI_IsCompleted_AnyFinished(ts) == ts \in {"completed", "Completed", "failed"}
\* main, line 205
PI_IsCompleted(ts) == ts = "completed" \/ ts = "Completed"
\* a variant that also fails on a missing status
PI_IsFailed_OrEmpty(ts) == ts \in {"failed", ""}
\* main, line 208
PI_IsFailed(ts) == ts = "failed"


(***************************************************************************)
(* Initial state: main() is about to send the submit request.              *)
(***************************************************************************)
Init ==
    /\ script \in Scripts
    /\ pc = "start"
    /\ outcome = "none"
    /\ clock = 0
    /\ generation_start = 0
    /\ submit_code = 0
    /\ task_id = None
    /\ poll_count = 0
    /\ raw_status = None
    /\ status = None
    /\ file_id = None
    /\ task_status = None
    /\ video_url = None
    /\ file = "absent"
    /\ submits = 0
    /\ queries = 0
    /\ failed_queries = 0
    /\ sleeps = 0
    /\ slept_since = FALSE
    /\ fetches = 0
    /\ writes = 0
    /\ final_status = None
    /\ download_code = 0
    /\ response_video = FALSE

\* main() returns (or is left by an exception) through the exit named o
Exit(o) == pc' = "done" /\ outcome' = o

(***************************************************************************)
(* MiniMax, main lines 175-202: submit the task.                           *)
(***************************************************************************)
MM_Submit ==
    /\ script = "minimax" /\ pc = "start"
    /\ submits' = submits + 1
    /\ \E raised \in BOOLEAN, code \in HttpCodes, json_ok \in BOOLEAN,
          tid \in {None, "", "abc123"}, lat \in Latency :
          /\ clock' = clock + lat
          /\ submit_code' = IF raised THEN 0 ELSE code
          /\ IF raised
                THEN /\ Exit("uncaught_exception")
                     /\ UNCHANGED <<task_id, generation_start>>
             ELSE IF ~HttpOk(code)
                THEN /\ Exit("submit_http_error")
                     /\ UNCHANGED <<task_id, generation_start>>
             ELSE IF ~json_ok
                THEN /\ Exit("submit_bad_json")
                     /\ UNCHANGED <<task_id, generation_start>>
             ELSE /\ task_id' = tid
                  /\ IF ~Truthy(tid)
                        THEN Exit("no_task_id") /\ UNCHANGED generation_start
                        ELSE /\ pc' = "mm_poll"
                             /\ generation_start' = clock'
                             /\ UNCHANGED outcome
    /\ UNCHANGED <<script, final_status, download_code, response_video, poll_count, raw_status, status, file_id, task_status,
                   video_url, file, queries, failed_queries, sleeps, slept_since,
                   fetches, writes>>

(***************************************************************************)
(* MiniMax, main lines 208-215 with query_video_generation: one status     *)
(* request.                                                                *)
(***************************************************************************)
MM_Query ==
    /\ script = "minimax" /\ pc = "mm_poll"
    /\ queries < MaxPolls
    /\ poll_count' = poll_count + 1
    /\ queries' = queries + 1
    /\ slept_since' = FALSE
    /\ \E raised \in BOOLEAN, code \in HttpCodes, raw \in MM_RawStatuses,
          fid \in MM_FileIds, lat \in Latency :
          /\ clock' = clock + lat
          /\ IF raised
                THEN /\ Exit("uncaught_exception")
                     /\ failed_queries' = failed_queries + 1
                     /\ UNCHANGED <<raw_status, status, file_id>>
                ELSE /\ pc' = "mm_check"
                     /\ file_id' = MM_QueryResult(code, raw, fid)[1]
                     /\ status' = MM_QueryResult(code, raw, fid)[2]
                     /\ raw_status' = IF HttpOk(code) THEN raw ELSE raw_status
                     /\ failed_queries' = IF HttpOk(code) THEN 0 ELSE failed_queries + 1
                     /\ UNCHANGED outcome
    /\ UNCHANGED <<script, final_status, download_code, response_video, generation_start, submit_code, task_id, task_status, video_url, file,
                   submits, sleeps, fetches, writes>>

(***************************************************************************)
(* MiniMax, main lines 217-239: the three branches on the returned status. *)
(***************************************************************************)
MM_Succeeded ==
    /\ script = "minimax" /\ pc = "mm_check"
    /\ MM_IsSuccess(status, file_id)
    /\ pc' = "mm_fetch"
    /\ UNCHANGED <<script, final_status, download_code, response_video, outcome, clock, generation_start, submit_code, task_id, poll_count,
                   raw_status, status, file_id, task_status, video_url, file,
                   submits, queries, failed_queries, sleeps, slept_since, fetches,
                   writes>>

\* a variant of the failure branch that sleeps and polls again
MM_Failed_Resumes ==
    /\ script = "minimax" /\ pc = "mm_check"
    /\ ~MM_IsSuccess(status, file_id)
    /\ MM_IsFailure(status)
    /\ clock' = clock + poll_interval
    /\ sleeps' = sleeps + 1
    /\ slept_since' = TRUE
    /\ pc' = "mm_poll"
    /\ UNCHANGED <<script, final_status, download_code, response_video, outcome, generation_start, submit_code, task_id,
                   poll_count, raw_status, status, file_id, task_status, video_url,
                   file, submits, queries, failed_queries, fetches, writes>>

MM_Failed ==
    /\ script = "minimax" /\ pc = "mm_check"
    /\ ~MM_IsSuccess(status, file_id)
    /\ MM_IsFailure(status)
    /\ Exit("generation_failed")
    /\ UNCHANGED <<script, final_status, download_code, response_video, clock, generation_start, submit_code, task_id, poll_count,
                   raw_status, status, file_id, task_status, video_url, file,
                   submits, queries, failed_queries, sleeps, slept_since, fetches,
                   writes>>

\* a variant of the else branch that counts the sleep as a polling attempt
MM_Sleep_CountsAgain ==
    /\ script = "minimax" /\ pc = "mm_check"
    /\ ~MM_IsSuccess(status, file_id)
    /\ ~MM_IsFailure(status)
    /\ clock' = clock + poll_interval
    /\ sleeps' = sleeps + 1
    /\ slept_since' = TRUE
    /\ pc' = "mm_poll"
    /\ poll_count' = poll_count + 1
    /\ UNCHANGED <<script, final_status, download_code, response_video, outcome, generation_start, submit_code, task_id,
                   raw_status, status, file_id, task_status, video_url, file,
                   submits, queries, failed_queries, fetches, writes>>

MM_Sleep ==
    /\ script = "minimax" /\ pc = "mm_check"
    /\ ~MM_IsSuccess(status, file_id)
    /\ ~MM_IsFailure(status)
    /\ clock' = clock + poll_interval
    /\ sleeps' = sleeps + 1
    /\ slept_since' = TRUE
    /\ pc' = "mm_poll"
    /\ UNCHANGED <<script, final_status, download_code, response_video, outcome, generation_start, submit_code, task_id, poll_count,
                   raw_status, status, file_id, task_status, video_url, file,
                   submits, queries, failed_queries, fetches, writes>>

(***************************************************************************)
(* MiniMax, fetch_video_result and main lines 222-231: resolve the file_id *)
(* into a download URL, download, write output_path.                       *)
(***************************************************************************)
\* a variant of main that reports the video as saved whatever the fetch returned
MM_FetchExit_IgnoresResult(ok) == "saved"

\* main, lines 222-231: the statistics are printed only when
\* fetch_video_result returned True; either way the loop is left
MM_FetchExit(ok) == IF ok THEN "saved" ELSE "fetch_failed"

\* a variant in which a successful fetch does not leave the poll loop
MM_Fetch_NoBreak ==
    /\ script = "minimax" /\ pc = "mm_fetch"
    /\ \E raised \in {"no", "retrieve", "download", "write"},
          rcode \in HttpCodes, url \in {"", "http://dl"}, dcode \in HttpCodes,
          lat \in Latency :
          /\ clock' = clock + lat
          /\ IF raised = "retrieve"
                THEN /\ Exit("uncaught_exception")
                     /\ UNCHANGED <<fetches, writes, file>>
             ELSE IF ~HttpOk(rcode) \/ ~Truthy(url)
                THEN /\ Exit(MM_FetchExit(FALSE))
                     /\ UNCHANGED <<fetches, writes, file>>
             ELSE /\ fetches' = fetches + 1
                  /\ IF raised = "download"
                        THEN Exit("uncaught_exception") /\ UNCHANGED <<writes, file>>
                     ELSE IF ~HttpOk(dcode)
                        THEN Exit(MM_FetchExit(FALSE)) /\ UNCHANGED <<writes, file>>
                     ELSE /\ writes' = writes + 1
                          /\ IF raised = "write"
                                THEN Exit("uncaught_exception") /\ file' = "partial"
                                ELSE pc' = "mm_poll" /\ outcome' = outcome /\ file' = "complete"
    /\ UNCHANGED <<script, final_status, download_code, response_video, generation_start, submit_code, task_id, poll_count, raw_status,
                   status, file_id, task_status, video_url, submits, queries,
                   failed_queries, sleeps, slept_since>>

MM_Fetch ==
    /\ script = "minimax" /\ pc = "mm_fetch"
    /\ \E raised \in {"no", "retrieve", "download", "write"},
          rcode \in HttpCodes, url \in {"", "http://dl"}, dcode \in HttpCodes,
          lat \in Latency :
          /\ clock' = clock + lat
          /\ IF raised = "retrieve"
                THEN /\ Exit("uncaught_exception")
                     /\ UNCHANGED <<fetches, writes, file>>
             ELSE IF ~HttpOk(rcode) \/ ~Truthy(url)
                THEN /\ Exit(MM_FetchExit(FALSE))
                     /\ UNCHANGED <<fetches, writes, file>>
             ELSE /\ fetches' = fetches + 1
                  /\ IF raised = "download"
                        THEN Exit("uncaught_exception") /\ UNCHANGED <<writes, file>>
                     ELSE IF ~HttpOk(dcode)
                        THEN Exit(MM_FetchExit(FALSE)) /\ UNCHANGED <<writes, file>>
                     ELSE /\ writes' = writes + 1
                          /\ IF raised = "write"
                                THEN Exit("uncaught_exception") /\ file' = "partial"
                                ELSE Exit(MM_FetchExit(TRUE)) /\ file' = "complete"
    /\ UNCHANGED <<script, final_status, download_code, response_video, generation_start, submit_code, task_id, poll_count, raw_status,
                   status, file_id, task_status, video_url, submits, queries,
                   failed_queries, sleeps, slept_since>>

(***************************************************************************)
(* PiAPI, main lines 138-172: submit the task.  Every exception raised     *)
(* from here on is caught at line 275.                                     *)
(***************************************************************************)
PI_Submit ==
    /\ script = "piapi" /\ pc = "start"
    /\ submits' = submits + 1
    /\ \E raised \in BOOLEAN, code \in HttpCodes, body_code \in HttpCodes,
          tid \in {None, "", "abc123"}, lat \in Latency :
          /\ clock' = clock + lat
          /\ submit_code' = IF raised THEN 0 ELSE code
          /\ IF raised
                THEN Exit("caught_exception") /\ UNCHANGED task_id
             ELSE IF ~HttpOk(code)
                THEN Exit("submit_http_error") /\ UNCHANGED task_id
             ELSE IF body_code # 200
                THEN Exit("api_response_error") /\ UNCHANGED task_id
             ELSE /\ task_id' = tid
                  /\ IF ~Truthy(tid)
                        THEN Exit("no_task_id")
                        ELSE pc' = "pi_sleep" /\ UNCHANGED outcome
    /\ UNCHANGED <<script, final_status, download_code, response_video, generation_start, poll_count, raw_status, status,
                   file_id, task_status, video_url, file, queries, failed_queries,
                   sleeps, slept_since, fetches, writes>>

(***************************************************************************)
(* PiAPI, main lines 176-178: the top of the poll loop sleeps.             *)
(***************************************************************************)
PI_Sleep ==
    /\ script = "piapi" /\ pc = "pi_sleep"
    /\ clock' = clock + PI_SLEEP
    /\ sleeps' = sleeps + 1
    /\ slept_since' = TRUE
    /\ pc' = "pi_query"
    /\ UNCHANGED <<script, final_status, download_code, response_video, outcome, generation_start, submit_code, task_id, poll_count,
                   raw_status, status, file_id, task_status, video_url, file,
                   submits, queries, failed_queries, fetches, writes>>

(***************************************************************************)
(* PiAPI, main lines 180-203: one status request of the poll loop.         *)
(***************************************************************************)
PI_Query ==
    /\ script = "piapi" /\ pc = "pi_query"
    /\ queries < MaxPolls
    /\ queries' = queries + 1
    /\ slept_since' = FALSE
    /\ \E raised \in BOOLEAN, code \in HttpCodes, body_code \in HttpCodes,
          raw \in PI_RawStatuses, lat \in Latency :
          /\ clock' = clock + lat
          /\ IF raised
                THEN /\ Exit("caught_exception")
                     /\ failed_queries' = failed_queries + 1
                     /\ UNCHANGED <<raw_status, task_status>>
             ELSE IF ~HttpOk(code)
                THEN /\ pc' = "pi_sleep"
                     /\ failed_queries' = failed_queries + 1
                     /\ UNCHANGED <<outcome, raw_status, task_status>>
             ELSE IF body_code # 200
                THEN /\ pc' = "pi_sleep"
                     /\ failed_queries' = 0
                     /\ UNCHANGED <<outcome, raw_status, task_status>>
             ELSE /\ pc' = "pi_check"
                  /\ failed_queries' = 0
                  /\ raw_status' = raw
                  /\ task_status' = Lower(raw)
                  /\ UNCHANGED outcome
    /\ UNCHANGED <<script, final_status, download_code, response_video, generation_start, submit_code, task_id, poll_count, status, file_id,
                   video_url, file, submits, sleeps, fetches, writes>>

(***************************************************************************)
(* PiAPI, main lines 205-241: the three branches on task_status.           *)
(***************************************************************************)
\* a variant of the completed branch that takes the video URL from the response
\* of the poll
PI_Completed_TakesUrl ==
    /\ script = "piapi" /\ pc = "pi_check"
    /\ PI_IsCompleted(task_status)
    /\ pc' = "pi_final"
    /\ video_url' = "http://v"
    /\ UNCHANGED <<script, final_status, download_code, response_video, outcome, clock, generation_start, submit_code, task_id, poll_count,
                   raw_status, status, file_id, task_status, file,
                   submits, queries, failed_queries, sleeps, slept_since, fetches,
                   writes>>

PI_Completed ==
    /\ script = "piapi" /\ pc = "pi_check"
    /\ PI_IsCompleted(task_status)
    /\ pc' = "pi_final"
    /\ UNCHANGED <<script, final_status, download_code, response_video, outcome, clock, generation_start, submit_code, task_id, poll_count,
                   raw_status, status, file_id, task_status, video_url, file,
                   submits, queries, failed_queries, sleeps, slept_since, fetches,
                   writes>>

PI_Failed ==
    /\ script = "piapi" /\ pc = "pi_check"
    /\ ~PI_IsCompleted(task_status)
    /\ PI_IsFailed(task_status)
    /\ Exit("task_failed")
    /\ UNCHANGED <<script, final_status, download_code, response_video, clock, generation_start, submit_code, task_id, poll_count,
                   raw_status, status, file_id, task_status, video_url, file,
                   submits, queries, failed_queries, sleeps, slept_since, fetches,
                   writes>>

\* a variant of the else branch that goes straight to the next status request
PI_Continue_SkipsSleep ==
    /\ script = "piapi" /\ pc = "pi_check"
    /\ ~PI_IsCompleted(task_status)
    /\ ~PI_IsFailed(task_status)
    /\ pc' = "pi_query"
    /\ UNCHANGED <<script, final_status, download_code, response_video, outcome, clock, generation_start, submit_code, task_id, poll_count,
                   raw_status, status, file_id, task_status, video_url, file,
                   submits, queries, failed_queries, sleeps, slept_since, fetches,
                   writes>>

PI_Continue ==
    /\ script = "piapi" /\ pc = "pi_check"
    /\ ~PI_IsCompleted(task_status)
    /\ ~PI_IsFailed(task_status)
    /\ pc' = "pi_sleep"
    /\ UNCHANGED <<script, final_status, download_code, response_video, outcome, clock, generation_start, submit_code, task_id, poll_count,
                   raw_status, status, file_id, task_status, video_url, file,
                   submits, queries, failed_queries, sleeps, slept_since, fetches,
                   writes>>

(***************************************************************************)
(* PiAPI, main lines 243-257: the status request made after the loop, from *)
(* which the video URL is read.                                            *)
(***************************************************************************)
PI_FinalQuery ==
    /\ script = "piapi" /\ pc = "pi_final"
    /\ queries' = queries + 1
    /\ slept_since' = FALSE
    /\ \E raised \in BOOLEAN, code \in HttpCodes, url \in {None, "", "http://v"},
          fst \in PI_RawStatuses, lat \in Latency :
          /\ clock' = clock + lat
          /\ final_status' = IF ~raised /\ HttpOk(code) THEN fst ELSE final_status
          /\ IF raised
                THEN /\ Exit("caught_exception")
                     /\ failed_queries' = failed_queries + 1
                     /\ UNCHANGED video_url
             ELSE IF ~HttpOk(code)
                THEN /\ Exit("final_http_error")
                     /\ failed_queries' = failed_queries + 1
                     /\ UNCHANGED video_url
             ELSE /\ video_url' = url
                  /\ failed_queries' = 0
                  /\ IF ~Truthy(url)
                        THEN Exit("no_video_url")
                        ELSE pc' = "pi_download" /\ UNCHANGED outcome
    /\ UNCHANGED <<script, download_code, response_video, generation_start, submit_code, task_id, poll_count, raw_status,
                   status, file_id, task_status, file, submits, sleeps, fetches,
                   writes>>

(***************************************************************************)
(* PiAPI, main lines 262-273: download the video and write output_path.    *)
(***************************************************************************)
PI_Download ==
    /\ script = "piapi" /\ pc = "pi_download"
    /\ fetches' = fetches + 1
    /\ \E raised \in {"no", "download", "write"}, dcode \in HttpCodes,
          lat \in Latency :
          /\ clock' = clock + lat
          /\ download_code' = IF raised = "download" THEN 0 ELSE dcode
          /\ IF raised = "download"
                THEN Exit("caught_exception") /\ UNCHANGED <<writes, file>>
             ELSE IF ~HttpOk(dcode)
                THEN Exit("download_http_error") /\ UNCHANGED <<writes, file>>
             ELSE /\ writes' = writes + 1
                  /\ IF raised = "write"
                        THEN Exit("caught_exception") /\ file' = "partial"
                        ELSE Exit("saved") /\ file' = "complete"
    /\ UNCHANGED <<script, final_status, response_video, generation_start, submit_code, task_id, poll_count, raw_status,
                   status, file_id, task_status, video_url, submits, queries,
                   failed_queries, sleeps, slept_since>>

\* a variant of the Runway run that saves without testing for the "video" field
RW_Submit_NoVideoCheck ==
    /\ script = "runway" /\ pc = "start"
    /\ submits' = submits + 1
    /\ \E raised \in {"no", "request", "write"}, code \in HttpCodes,
          has_video \in BOOLEAN, lat \in Latency :
          /\ clock' = clock + lat
          /\ response_video' = (raised # "request" /\ has_video)
          /\ submit_code' = IF raised = "request" THEN 0 ELSE code
          /\ IF raised = "request"
                THEN Exit("uncaught_exception") /\ UNCHANGED <<writes, file>>
             ELSE IF ~HttpOk(code)
                THEN Exit("submit_http_error") /\ UNCHANGED <<writes, file>>
             ELSE IF FALSE
                THEN Exit("no_video") /\ UNCHANGED <<writes, file>>
             ELSE /\ writes' = writes + 1
                  /\ IF raised = "write"
                        THEN Exit("uncaught_exception") /\ file' = "partial"
                        ELSE Exit("saved") /\ file' = "complete"
    /\ UNCHANGED <<script, final_status, download_code, generation_start, task_id, poll_count, raw_status,
                   status, file_id, task_status, video_url, queries, failed_queries,
                   sleeps, slept_since, fetches>>

(***************************************************************************)
(* Runway, main lines 72-96: the single request and the write of its       *)
(* "video" field.                                                          *)
(***************************************************************************)
RW_Submit ==
    /\ script = "runway" /\ pc = "start"
    /\ submits' = submits + 1
    /\ \E raised \in {"no", "request", "write"}, code \in HttpCodes,
          has_video \in BOOLEAN, lat \in Latency :
          /\ clock' = clock + lat
          /\ response_video' = (raised # "request" /\ has_video)
          /\ submit_code' = IF raised = "request" THEN 0 ELSE code
          /\ IF raised = "request"
                THEN Exit("uncaught_exception") /\ UNCHANGED <<writes, file>>
             ELSE IF ~HttpOk(code)
                THEN Exit("submit_http_error") /\ UNCHANGED <<writes, file>>
             ELSE IF ~has_video
                THEN Exit("no_video") /\ UNCHANGED <<writes, file>>
             ELSE /\ writes' = writes + 1
                  /\ IF raised = "write"
                        THEN Exit("uncaught_exception") /\ file' = "partial"
                        ELSE Exit("saved") /\ file' = "complete"
    /\ UNCHANGED <<script, final_status, download_code, generation_start, task_id, poll_count, raw_status,
                   status, file_id, task_status, video_url, queries, failed_queries,
                   sleeps, slept_since, fetches>>

Next ==
    \/ MM_Submit
    \/ MM_Query
    \/ MM_Succeeded
    \/ MM_Failed
    \/ MM_Sleep
    \/ MM_Fetch
    \/ PI_Submit
    \/ PI_Sleep
    \/ PI_Query
    \/ PI_Completed
    \/ PI_Failed
    \/ PI_Continue
    \/ PI_FinalQuery
    \/ PI_Download
    \/ RW_Submit

Spec == Init /\ [][Next]_vars

(***************************************************************************)
(* The job lifecycle the scripts implement, read off the program state.    *)
(***************************************************************************)
\* the canonical state a raw status stands for, as each script classifies it
Normalize(s, raw) ==
    IF s = "minimax"
        THEN CASE raw = "Success"    -> "Succeeded"
               [] MM_IsFailure(raw)  -> "Failed"
               [] raw = "Preparing"  -> "Preparing"
               [] raw = "Queueing"   -> "Queued"
               [] raw = "Processing" -> "Processing"
               [] OTHER              -> "Unknown"
        ELSE CASE PI_IsCompleted(Lower(raw)) -> "Succeeded"
               [] PI_IsFailed(Lower(raw))    -> "Failed"
               [] OTHER                      -> "Unknown"

\* the lifecycle state of the run's job, as the last tick's classification of
\* the status left it
JobState ==
    CASE script = "minimax" ->
            IF MM_IsSuccess(status, file_id) THEN "Succeeded"
            ELSE IF MM_IsFailure(status) THEN "Failed"
            ELSE IF poll_count > 0 THEN "Polling"
            ELSE IF Truthy(task_id) THEN "Submitted"
            ELSE "NoJob"
      [] script = "piapi" ->
            IF PI_IsCompleted(task_status) THEN "Succeeded"
            ELSE IF PI_IsFailed(task_status) THEN "Failed"
            ELSE IF sleeps > 0 THEN "Polling"
            ELSE IF Truthy(task_id) THEN "Submitted"
            ELSE "NoJob"
      [] OTHER -> "NoJob"

\* the run is inside its poll loop
InPollLoop == pc \in {"mm_poll", "mm_check", "pi_sleep", "pi_query", "pi_check"}

\* seconds since the job was submitted
Elapsed == IF script = "minimax" THEN clock - generation_start ELSE clock

\* the result locator the run holds
Locator == IF script = "minimax" THEN file_id ELSE video_url

(***************************************************************************)
(* C1: once the time since submission exceeds the maximum wait, polling    *)
(* stops: no status request is sent from inside the poll loop, and the run *)
(* ends as timed out.  Neither script has a maximum wait, so this fails.   *)
(***************************************************************************)
C1_TimeoutStopsPolling ==
    [][(InPollLoop /\ Elapsed > MaxWait) => queries' = queries]_vars

(***************************************************************************)
(* C2: once a status response carried a status that stands for Succeeded   *)
(* or Failed, no further status request is sent.                           *)
(***************************************************************************)
C2_NoQueryAfterTerminalStatus ==
    [][Normalize(script, raw_status) \in {"Succeeded", "Failed"}
           => queries' = queries]_vars

Terminal == {"Succeeded", "Failed", "TimedOut"}

Rank(st) ==
    CASE st = "NoJob"     -> 0
      [] st = "Submitted" -> 1
      [] st = "Polling"   -> 2
      [] OTHER            -> 3

Interval == IF script = "minimax" THEN poll_interval ELSE PI_SLEEP

CeilDiv(a, b) == (a + b - 1) \div b

C5_QueriesBounded == queries <= CeilDiv(MaxWait, Interval) + RetryBudget

(***************************************************************************)
(* C6, as stated: a status outside the provider's vocabulary is not        *)
(* terminal; the poller sleeps for the poll interval and polls again.      *)
(***************************************************************************)
MM_Vocabulary == {"Preparing", "Queueing", "Processing", "Success", "Fail"}
PI_Vocabulary == {"completed", "failed"}

\* the MiniMax tick read st from a response, and sleeps before the next poll
MM_SleepsOn(st) ==
    (script = "minimax" /\ pc = "mm_check" /\ failed_queries = 0 /\ status = st)
        => /\ pc' = "mm_poll" /\ outcome' = "none"
           /\ sleeps' = sleeps + 1 /\ clock' = clock + poll_interval

\* the PiAPI tick read the lowered status ts, and goes on to the loop's sleep
PI_SleepsOn(ts) ==
    /\ (script = "piapi" /\ pc = "pi_check" /\ task_status = ts)
          => pc' = "pi_sleep" /\ outcome' = "none"
    /\ (script = "piapi" /\ pc = "pi_sleep")
          => /\ pc' = "pi_query" /\ outcome' = "none"
             /\ sleeps' = sleeps + 1 /\ clock' = clock + PI_SLEEP

C6_UnrecognizedIsTransient ==
    [][/\ \A st \in MM_RawStatuses \ MM_Vocabulary : MM_SleepsOn(st)
       /\ \A raw \in PI_RawStatuses :
            Lower(raw) \notin PI_Vocabulary => PI_SleepsOn(Lower(raw))]_vars

(***************************************************************************)
(* C6, amended: the same, except for the raw status "Unknown" in the       *)
(* MiniMax script, which ends the run as a failure.                        *)
(***************************************************************************)
C6_UnrecognizedIsTransientButUnknown ==
    [][/\ \A st \in MM_RawStatuses \ (MM_Vocabulary \cup {"Unknown"}) :
            MM_SleepsOn(st)
       /\ (script = "minimax" /\ pc = "mm_check" /\ status = "Unknown")
            => pc' = "done" /\ outcome' = "generation_failed"
       /\ \A raw \in PI_RawStatuses :
            Lower(raw) \notin PI_Vocabulary => PI_SleepsOn(Lower(raw))]_vars

C6_Witness ==
    script = "minimax" /\ pc = "mm_poll" /\ status = "Bogus" /\ slept_since

(***************************************************************************)
(* C7: in the MiniMax script a tick that returns "Unknown" ends the run at *)
(* once as a failure, as "Fail" and "Error" do: no sleep, no further       *)
(* status request, no fetch, no output file, and nothing after it.         *)
(***************************************************************************)
C7_UnknownIsTerminalFailure ==
    [][/\ \A st \in {"Unknown", "Fail", "Error"} :
            (script = "minimax" /\ pc = "mm_check" /\ status = st)
                => /\ pc' = "done" /\ outcome' = "generation_failed"
                   /\ sleeps' = sleeps /\ clock' = clock
                   /\ queries' = queries /\ poll_count' = poll_count
                   /\ fetches' = fetches /\ fetches = 0
                   /\ writes' = writes /\ writes = 0
                   /\ file' = file /\ file = "absent"
       /\ (script = "minimax" /\ outcome = "generation_failed")
            => UNCHANGED vars]_vars

C7_Witness ==
    /\ script = "minimax" /\ pc = "done" /\ outcome = "generation_failed"
    /\ status = "Unknown" /\ raw_status = "Unknown"

(***************************************************************************)
(* C8: in the PiAPI script a tick whose status is neither "completed" nor  *)
(* "failed" (the empty status of a response without one included) never    *)
(* ends the loop: the run goes to the loop's sleep, sleeps 5 s and sends   *)
(* the next status request.                                                *)
(***************************************************************************)
C8_OtherStatusIsTransient ==
    [][/\ (script = "piapi" /\ pc = "pi_check"
              /\ task_status \notin {"completed", "failed"})
            => /\ pc' = "pi_sleep" /\ outcome' = "none"
               /\ queries' = queries /\ UNCHANGED <<fetches, writes, file>>
       /\ (script = "piapi" /\ pc = "pi_sleep")
            => /\ pc' = "pi_query" /\ outcome' = "none"
               /\ sleeps' = sleeps + 1 /\ clock' = clock + PI_SLEEP
       /\ (script = "piapi" /\ pc = "pi_query")
            => queries' = queries + 1]_vars

C8_Witness ==
    /\ script = "piapi" /\ pc = "pi_check" /\ task_status = ""
    /\ queries > 1 /\ raw_status = ""

(***************************************************************************)
(* C9: a failed status request is retried at least once before the run     *)
(* ends on it, and at most RetryBudget times in a row.                     *)
(***************************************************************************)
C9_BoundedRetry ==
    /\ (pc = "done" /\ failed_queries > 0) => failed_queries > 1
    /\ failed_queries <= RetryBudget + 1

(***************************************************************************)
(* C10: a submit response that is not HTTP 200 ends the run at once: one   *)
(* submit request, no status request, no sleep, no download, no file.      *)
(***************************************************************************)
C10_SubmitErrorAborts ==
    (submit_code \notin {0, 200})
        => /\ pc = "done" /\ outcome = "submit_http_error"
           /\ submits = 1 /\ queries = 0 /\ sleeps = 0
           /\ fetches = 0 /\ writes = 0 /\ file = "absent"

C10_Witness ==
    script = "piapi" /\ submit_code = 401 /\ pc = "done"

(***************************************************************************)
(* C11: in the two polling scripts the output file is opened only in a run *)
(* whose last status response reported success; once a status response     *)
(* reports the provider's failure word the run ends as a failure on that   *)
(* tick, and no download was started nor the file opened.                  *)
(***************************************************************************)
\* the last status response carried the provider's success / failure word
ReportedSuccess ==
    \/ script = "minimax" /\ raw_status = "Success"
    \/ script = "piapi" /\ raw_status \in {"completed", "Completed", "COMPLETED"}

ReportedFailure ==
    \/ script = "minimax" /\ raw_status = "Fail"
    \/ script = "piapi" /\ raw_status \in {"failed", "Failed"}

C11_FileOnlyAfterSuccess ==
    script \in {"minimax", "piapi"} =>
        /\ (file # "absent" \/ writes > 0 \/ fetches > 0) => ReportedSuccess
        /\ ReportedFailure =>
            /\ file = "absent" /\ writes = 0 /\ fetches = 0
            /\ pc \in {"mm_check", "pi_check", "done"}
            /\ pc = "done" => outcome \in {"generation_failed", "task_failed"}

C11_Witness ==
    /\ script = "piapi" /\ raw_status = "failed" /\ queries > 1
    /\ pc = "done" /\ outcome = "task_failed" /\ file = "absent"

(***************************************************************************)
(* C12: when a run has ended, output_path holds the complete artifact or   *)
(* does not exist: no way the fetch can fail leaves a partly written file. *)
(***************************************************************************)
C12_AllOrNothing == pc = "done" => file \in {"absent", "complete"}

(***************************************************************************)
(* C13: a run whose job Succeeded but whose artifact was not delivered     *)
(* ends with a report of its own: not the report of a saved video, not the *)
(* report of a generation failure, and not without any report; the job     *)
(* stays Succeeded.                                                        *)
(***************************************************************************)
DeliveryErrors ==
    {"fetch_failed", "uncaught_exception", "final_http_error", "no_video_url",
     "download_http_error", "caught_exception"}

C13_DeliveryErrorDistinct ==
    /\ (pc = "done" /\ JobState = "Succeeded" /\ file # "complete")
            => outcome \in DeliveryErrors
    /\ (pc \in {"mm_fetch", "pi_final", "pi_download"}) => JobState = "Succeeded"
    /\ outcome = "saved" => (file = "complete" /\ JobState \in {"Succeeded", "NoJob"})

C13_Witness ==
    /\ script = "minimax" /\ pc = "done" /\ JobState = "Succeeded"
    /\ outcome = "fetch_failed" /\ fetches = 1 /\ file = "absent"

(***************************************************************************)
(* C14: in every run of any of the three scripts output_path is opened for *)
(* writing at most once and at most one download is started; a run that    *)
(* ends with the video saved has written it exactly once.                  *)
(***************************************************************************)
C14_WrittenOnce ==
    /\ writes <= 1 /\ fetches <= 1
    /\ outcome = "saved" => (writes = 1 /\ file = "complete")
    /\ file # "absent" => writes = 1

C14_Witness ==
    script = "minimax" /\ outcome = "saved" /\ writes = 1 /\ queries > 1

(***************************************************************************)
(* C15: no exception leaves main: every run that ends does so by one of    *)
(* main's own exits.                                                       *)
(***************************************************************************)
C15_NoExceptionEscapes == ~(pc = "done" /\ outcome = "uncaught_exception")

(***************************************************************************)
(* C16: the poll loop sleeps once between two status requests: when the    *)
(* loop is about to send a request it has slept once per request sent so   *)
(* far (PiAPI, which sleeps first: once more), and every request of the    *)
(* loop but the first follows a sleep made since the request before it.    *)
(***************************************************************************)
LoopSleepCount ==
    /\ (script = "minimax" /\ pc = "mm_poll") => sleeps = queries
    /\ (script = "piapi" /\ pc = "pi_query") => sleeps = queries + 1

C16_SleepBetweenPolls ==
    /\ []LoopSleepCount
    /\ [][(pc \in {"mm_poll", "pi_query"} /\ queries' = queries + 1 /\ queries > 0)
              => slept_since]_vars

C16_Witness ==
    /\ script = "piapi" /\ pc = "pi_query" /\ queries > 1
    /\ failed_queries > 0 /\ slept_since

(***************************************************************************)
(* C17: once an external deadline has passed (here: MaxWait seconds after  *)
(* main started) no further status request is sent, no download is started *)
(* and output_path is not opened.                                          *)
(***************************************************************************)
C17_DeadlineStopsRun ==
    [][clock > MaxWait
          => queries' = queries /\ fetches' = fetches /\ writes' = writes]_vars

(***************************************************************************)
(* C18: the scripts classify MiniMax "Success" and PiAPI "completed" as    *)
(* Succeeded, MiniMax "Fail" and PiAPI "failed" as Failed; PiAPI compares  *)
(* without regard to letter case, and every other PiAPI status is Unknown  *)
(* and leaves the job polling.                                             *)
(***************************************************************************)
PI_CompletedForms == {"completed", "Completed", "COMPLETED"}
PI_FailedForms == {"failed", "Failed"}

C19_PollCountIsQueries ==
    script = "minimax" =>
        /\ poll_count = queries
        /\ (pc = "mm_fetch" \/ outcome = "saved") => poll_count >= 1

C19_Witness ==
    script = "minimax" /\ outcome = "saved" /\ poll_count = 3 /\ sleeps = 2

C21_UrlFromFinalQuery ==
    script = "piapi" =>
        /\ pc \in {"start", "pi_sleep", "pi_query", "pi_check", "pi_final"}
              => video_url = None /\ final_status = None
        /\ (video_url # None \/ final_status # None)
              => queries = sleeps + 1 /\ raw_status \in PI_CompletedForms
        /\ pc = "done"
              => (writes = 1 <=> /\ raw_status \in PI_CompletedForms
                                 /\ video_url \notin {None, ""}
                                 /\ download_code = 200)
        /\ writes <= 1
        /\ writes = 0 <=> file = "absent"

C21_Witness ==
    /\ script = "piapi" /\ pc = "done" /\ outcome = "saved" /\ file = "complete"
    /\ final_status = "failed" /\ raw_status = "completed"

(***************************************************************************)
(* C22: in both polling scripts a submit answered with HTTP 200 that       *)
(* yields no task id (a missing or empty task_id; for PiAPI also a body    *)
(* whose code is not 200) ends the run before the poll loop: no status     *)
(* request, no sleep, no output file.  Hence every status request is made  *)
(* for a non-empty task id read from the submit response.                  *)
(***************************************************************************)
C22_NoTaskIdNoPolling ==
    script \in {"minimax", "piapi"} =>
        /\ (pc # "start" /\ submit_code = 200 /\ task_id \in {None, ""})
              => /\ pc = "done"
                 /\ outcome \in {"no_task_id", "api_response_error",
                                 "submit_bad_json"}
                 /\ queries = 0 /\ sleeps = 0 /\ fetches = 0
                 /\ writes = 0 /\ file = "absent"
        /\ (queries > 0 \/ sleeps > 0 \/ pc \notin {"start", "done"})
              => task_id \notin {None, ""} /\ submit_code = 200

C22_Witness ==
    /\ script = "piapi" /\ pc = "done" /\ submit_code = 200 /\ task_id = ""
    /\ outcome = "no_task_id" /\ queries = 0 /\ file = "absent"

=============================================================================
